---- MODULE Spec2Model ----
\* The UVM toolchain: the assembler (uvm-asm.py) packs instruction records
\* into little-endian byte strings, the interpreter (uvm-interp.py) runs a
\* fetch-decode-execute loop over them against module-level machine state.
EXTENDS Integers, Sequences, FiniteSets, TLC

VARIABLES
    program,            \* asm: the list of instruction records (parameter)
    binary_code,        \* asm: the accumulator of line 86
    asm_i,              \* asm: index of the next record of the for loop
    asm_pc,             \* asm/main: "loop", "returned", "raised", "written"
    asm_exc,            \* asm: the exception asm raised, <<>> if none
    file,               \* the binary file on disk (a byte sequence)
    file_kind,          \* how the file relates to asm's output
    instruction_memory, \* interp: module-level list (line 37)
    registers,          \* interp: module-level list of 64 cells (line 34)
    data_memory,        \* interp: module-level defaultdict(int) (line 30)
    pc,                 \* run_interpreter: the local pc
    instr,              \* run_interpreter: the local instr of line 140
    phase,              \* run_interpreter: "idle", "running", "halted",
                        \* "returned", "raised"
    halt,               \* how the loop was left: "none", "normal", "error"
    runs,               \* number of run_interpreter invocations so far
    dump_range,         \* the range of the dump this invocation wrote
    memory_dump,        \* the mapping of the dump this invocation wrote
    out,                \* interp: the lines printed so far
    ret,                \* what the last run_interpreter call gave its
                        \* caller: the value returned or the exception raised
    c_in,               \* codec: the instruction record given to the encoder
    c_bytes,            \* codec: the encoder's bytes
    c_dec,              \* codec: what fetch and decode make of the bytes
    c_pc                \* codec: "off", "start", "encoded", "overflow",
                        \* "decoded", "rejected"

vars == <<program, binary_code, asm_i, asm_pc, asm_exc, file, file_kind,
          instruction_memory, registers, data_memory, pc, instr, phase, halt,
          runs, dump_range, memory_dump, out, ret, c_in, c_bytes, c_dec, c_pc>>

codec_vars == <<c_in, c_bytes, c_dec, c_pc>>

asm_vars == <<program, binary_code, asm_i, asm_pc, asm_exc, file, file_kind>>

vm_vars == <<instruction_memory, registers, data_memory, pc, instr, phase, halt,
             runs, dump_range, memory_dump, out, ret>>

\* ---------------------------------------------------------------- bounds

MaxProg == 3

MaxRuns == 2

MaxRaw == 4

NumRegs == 64

\* ------------------------------------------------- Python integers as bits
\* A non-negative Python int is the set of the positions of its one bits, so
\* the 39-bit words of asm_rsh need no machine integer wider than a field.

Bits(n) == {i \in 0..30 : (n \div (2^i)) % 2 = 1}

RECURSIVE IntOf(_)
IntOf(S) ==
    IF S = {} THEN 0
    ELSE LET i == CHOOSE x \in S : TRUE IN (2^i) + IntOf(S \ {i})

Shl(S, k) == {i + k : i \in S}

Shr(S, k) == {i - k : i \in {j \in S : j >= k}}

BitOr(S, T) == S \cup T

BitAnd(S, T) == S \cap T

\* big-endian serialisation
to_bytes_big(S, n) ==
    [j \in 1..n |-> IntOf({i \in 0..7 : (8 * (n - j) + i) \in S})]

\* int.to_bytes(n, "little"): byte j holds bits 8(j-1) .. 8(j-1)+7
to_bytes(S, n) ==
    [j \in 1..n |-> IntOf({i \in 0..7 : (8 * (j - 1) + i) \in S})]

\* a to_bytes that never raises
OverflowError_never(S, n) == FALSE

\* int.to_bytes raises OverflowError when the int needs more than n bytes
OverflowError(S, n) == \E i \in S : i >= 8 * n

\* int.from_bytes(bs, 'little')
from_bytes(bs) ==
    UNION {Shl(Bits(bs[j]), 8 * (j - 1)) : j \in 1..Len(bs)}

\* -------------------------------------------------------------- assembler

\* cmd of asm_ldc
cmd_ldc(const, addr) ==
    LET op_a == 101
        op_b == const
        op_c == addr
    IN BitOr(BitOr(Shl(Bits(op_c), 25), Shl(Bits(op_b), 7)), Bits(op_a))

asm_ldc(const, addr) == to_bytes(cmd_ldc(const, addr), 4)

\* cmd of asm_read
cmd_read(offset, addr1, addr2) ==
    LET op_a == 73
        op_b == offset
        op_c == addr1
        op_d == addr2
    IN BitOr(BitOr(BitOr(Shl(Bits(op_d), 20), Shl(Bits(op_c), 14)),
                   Shl(Bits(op_b), 7)), Bits(op_a))

asm_read(offset, addr1, addr2) == to_bytes(cmd_read(offset, addr1, addr2), 4)

\* cmd of asm_write
cmd_write(addr1, addr2) ==
    LET op_a == 5
        op_b == addr1
        op_c == addr2
    IN BitOr(BitOr(Shl(Bits(op_c), 13), Shl(Bits(op_b), 7)), Bits(op_a))

\* a write command serialised on four bytes
asm_write_four_bytes(addr1, addr2) == to_bytes(cmd_write(addr1, addr2), 4)

asm_write(addr1, addr2) == to_bytes(cmd_write(addr1, addr2), 3)

\* cmd of asm_rsh
cmd_rsh(addr1, offset1, offset2, addr2, addr3) ==
    LET op_a == 75
        op_b == addr1
        op_c == offset1
        op_d == offset2
        op_e == addr2
        op_f == addr3
    IN BitOr(BitOr(BitOr(BitOr(BitOr(Shl(Bits(op_f), 33),
           Shl(Bits(op_e), 27)), Shl(Bits(op_d), 20)),
           Shl(Bits(op_c), 13)), Shl(Bits(op_b), 7)), Bits(op_a))

asm_rsh(addr1, offset1, offset2, addr2, addr3) ==
    to_bytes(cmd_rsh(addr1, offset1, offset2, addr2, addr3), 5)

AsmOps == {"ldc", "read", "write", "rsh"}

\* the branch of asm's if/elif chain taken for one record
asm_one(instruction) ==
    LET op == instruction.op IN
    IF op = "ldc" THEN asm_ldc(instruction.const, instruction.addr)
    ELSE IF op = "read"
        THEN asm_read(instruction.offset, instruction.addr1, instruction.addr2)
    ELSE IF op = "write" THEN asm_write(instruction.addr1, instruction.addr2)
    ELSE asm_rsh(instruction.addr1, instruction.offset1, instruction.offset2,
                 instruction.addr2, instruction.addr3)

\* whether the to_bytes call of that branch raises OverflowError
asm_overflows(instruction) ==
    LET op == instruction.op IN
    IF op = "ldc"
        THEN OverflowError(cmd_ldc(instruction.const, instruction.addr), 4)
    ELSE IF op = "read"
        THEN OverflowError(cmd_read(instruction.offset, instruction.addr1,
                                    instruction.addr2), 4)
    ELSE IF op = "write"
        THEN OverflowError(cmd_write(instruction.addr1, instruction.addr2), 3)
    ELSE OverflowError(cmd_rsh(instruction.addr1, instruction.offset1,
                               instruction.offset2, instruction.addr2,
                               instruction.addr3), 5)

\* ------------------------------------------------------------ interpreter

\* an ldc decoder whose register mask is one bit too wide
decode_ldc_wide_addr(instr_bytes) ==
    LET word == from_bytes(instr_bytes)
        const == IntOf(BitAnd(Shr(word, 7), Bits(262143)))
        addr == IntOf(BitAnd(Shr(word, 25), Bits(127)))
    IN [op |-> "ldc", const |-> const, addr |-> addr]

decode_ldc(instr_bytes) ==
    LET word == from_bytes(instr_bytes)
        const == IntOf(BitAnd(Shr(word, 7), Bits(262143)))
        addr == IntOf(BitAnd(Shr(word, 25), Bits(63)))
    IN [op |-> "ldc", const |-> const, addr |-> addr]

\* a read decoder whose offset mask is one bit too wide
decode_read_wide_offset(instr_bytes) ==
    LET word == from_bytes(instr_bytes)
        offset == IntOf(BitAnd(Shr(word, 7), Bits(255)))
        addr_c == IntOf(BitAnd(Shr(word, 14), Bits(63)))
        addr_d == IntOf(BitAnd(Shr(word, 20), Bits(63)))
    IN [op |-> "read", offset |-> offset, addr_src |-> addr_c, addr_dst |-> addr_d]

decode_read(instr_bytes) ==
    LET word == from_bytes(instr_bytes)
        offset == IntOf(BitAnd(Shr(word, 7), Bits(127)))
        addr_c == IntOf(BitAnd(Shr(word, 14), Bits(63)))
        addr_d == IntOf(BitAnd(Shr(word, 20), Bits(63)))
    IN [op |-> "read", offset |-> offset, addr_src |-> addr_c, addr_dst |-> addr_d]

decode_write(instr_bytes) ==
    LET word == from_bytes(instr_bytes)
        addr_b == IntOf(BitAnd(Shr(word, 7), Bits(63)))
        addr_c == IntOf(BitAnd(Shr(word, 13), Bits(63)))
    IN [op |-> "write", addr_dst |-> addr_b, addr_src |-> addr_c]

\* opcode -> (size in bytes, decoder); opcode 75 (rsh) has no entry
opcodes ==
    (101 :> [size |-> 4, decoder |-> "decode_ldc"]) @@
    (73 :> [size |-> 4, decoder |-> "decode_read"]) @@
    (5 :> [size |-> 3, decoder |-> "decode_write"])

\* the call decoder(instr_bytes) of line 140
decoder(name, instr_bytes) ==
    IF name = "decode_ldc" THEN decode_ldc(instr_bytes)
    ELSE IF name = "decode_read" THEN decode_read(instr_bytes)
    ELSE decode_write(instr_bytes)

\* ---------------------------------------------------------------- inputs

\* the instruction records programs are drawn from: the four operations of
\* the assembler, and a record whose tag asm does not know
Pool ==
    {[op |-> "ldc", const |-> 7, addr |-> 0],
     [op |-> "ldc", const |-> 3, addr |-> 1],
     [op |-> "write", addr1 |-> 0, addr2 |-> 1],
     [op |-> "write", addr1 |-> 0, addr2 |-> 0],
     [op |-> "read", offset |-> 7, addr1 |-> 2, addr2 |-> 63],
     [op |-> "rsh", addr1 |-> 6, offset1 |-> 36, offset2 |-> 35,
      addr2 |-> 19, addr3 |-> 11],
     [op |-> "nop"]}

Programs == UNION {[1..n -> Pool] : n \in 0..MaxProg}

\* bytes appended to a binary: 0 is no opcode, 101 opens a 4-byte ldc
TailBytes == {0, 101}

\* (dump_path, dump_range) of run_interpreter: no dump, or the range
\* start-end as the pair of its two numbers
NoDump == <<>>

DumpArgs == {NoDump, <<0, 7>>}

\* the bytes of a binary file that no assembler wrote: 133, 201 and 229 are
\* the opcodes 5, 73 and 101 with bit 7 set, 0 and 255 are no opcode
RawBytes == {0, 133, 201, 229, 255}

RawFiles == UNION {[1..n -> RawBytes] : n \in 0..MaxRaw}

\* ------------------------------------------------------------------ state

\* the interpreter's module-level state after import, no call made yet
FreshVM ==
    /\ instruction_memory = <<>>
    /\ registers = [r \in 0..(NumRegs - 1) |-> 0]
    /\ data_memory = <<>>
    /\ pc = 0
    /\ instr = <<>>
    /\ phase = "idle"
    /\ halt = "none"
    /\ runs = 0
    /\ dump_range = NoDump
    /\ memory_dump = <<>>
    /\ out = <<>>
    /\ ret = "no call"

\* the state at process start, before any input is chosen
Fresh ==
    /\ binary_code = <<>>
    /\ asm_i = 1
    /\ asm_pc = "loop"
    /\ asm_exc = <<>>
    /\ file = <<>>
    /\ file_kind = "none"
    /\ FreshVM

Init ==
    /\ program \in Programs
    /\ Fresh
    /\ c_in = <<>>
    /\ c_bytes = <<>>
    /\ c_dec = <<>>
    /\ c_pc = "off"

\* ------------------------------------------------------ assembler actions

\* an accumulation that puts the new bytes first
asm_accumulate_front(code, instruction) == asm_one(instruction) \o code

\* binary_code += asm_xxx(...)
asm_accumulate(code, instruction) == code \o asm_one(instruction)

\* one iteration of asm's for loop over a record with a known tag; an
\* OverflowError of to_bytes leaves asm (and main, which does not catch it)
asm_step ==
    /\ asm_pc = "loop"
    /\ asm_i <= Len(program)
    /\ program[asm_i].op \in AsmOps
    /\ IF asm_overflows(program[asm_i])
       THEN /\ asm_pc' = "raised"
            /\ asm_exc' = <<"OverflowError">>
            /\ UNCHANGED <<binary_code, asm_i>>
       ELSE /\ binary_code' = asm_accumulate(binary_code, program[asm_i])
            /\ asm_i' = asm_i + 1
            /\ UNCHANGED <<asm_pc, asm_exc>>
    /\ UNCHANGED <<program, file, file_kind>>
    /\ UNCHANGED <<vm_vars, codec_vars>>

\* an else branch that gives up on the loop and returns what it has
asm_raise_returns_prefix ==
    /\ asm_pc = "loop"
    /\ asm_i <= Len(program)
    /\ program[asm_i].op \notin AsmOps
    /\ asm_pc' = "returned"
    /\ asm_exc' = <<"ValueError", program[asm_i].op>>
    /\ UNCHANGED <<program, binary_code, asm_i, file, file_kind>>
    /\ UNCHANGED <<vm_vars, codec_vars>>

\* the else branch: raise ValueError(f"Unknown instruction: {op}"); main
\* prints it and exits with status 1 before it opens the output file
asm_raise ==
    /\ asm_pc = "loop"
    /\ asm_i <= Len(program)
    /\ program[asm_i].op \notin AsmOps
    /\ asm_pc' = "raised"
    /\ asm_exc' = <<"ValueError", program[asm_i].op>>
    /\ UNCHANGED <<program, binary_code, asm_i, file, file_kind>>
    /\ UNCHANGED <<vm_vars, codec_vars>>

\* the loop is over: return binary_code
asm_return ==
    /\ asm_pc = "loop"
    /\ asm_i > Len(program)
    /\ asm_pc' = "returned"
    /\ UNCHANGED <<program, binary_code, asm_i, asm_exc, file, file_kind>>
    /\ UNCHANGED <<vm_vars, codec_vars>>

\* main after asm returned: write the output file. main calls asm on a
\* non-empty program only (line 119).
main_write ==
    /\ asm_pc = "returned"
    /\ program # <<>>
    /\ file' = binary_code
    /\ file_kind' = "asm"
    /\ asm_pc' = "written"
    /\ UNCHANGED <<program, binary_code, asm_i, asm_exc>>
    /\ UNCHANGED <<vm_vars, codec_vars>>

\* The interpreter reads whatever bytes the file holds: here the binary with
\* one more byte, with its last byte missing, or with no byte left.
file_append ==
    /\ file_kind = "asm"
    /\ runs = 0
    /\ \E b \in TailBytes : file' = Append(file, b)
    /\ file_kind' = "appended"
    /\ UNCHANGED <<program, binary_code, asm_i, asm_pc, asm_exc>>
    /\ UNCHANGED <<vm_vars, codec_vars>>

file_truncate ==
    /\ file_kind = "asm"
    /\ runs = 0
    /\ \E n \in {0, Len(file) - 1} : file' = SubSeq(file, 1, n)
    /\ file_kind' = "truncated"
    /\ UNCHANGED <<program, binary_code, asm_i, asm_pc, asm_exc>>
    /\ UNCHANGED <<vm_vars, codec_vars>>

\* ---------------------------------------------------- interpreter actions

\* run_interpreter is entered: the file is appended to instruction_memory
load_program ==
    instruction_memory \o file

run_load ==
    /\ phase \in {"idle", "returned", "raised"}
    /\ file_kind # "none"
    /\ runs < MaxRuns
    /\ instruction_memory' = load_program
    /\ out' = Append(out, <<"loaded", Len(instruction_memory')>>)
    /\ pc' = 0
    /\ instr' = <<>>
    /\ phase' = "running"
    /\ halt' = "none"
    /\ runs' = runs + 1
    /\ dump_range' = NoDump
    /\ memory_dump' = <<>>
    /\ ret' = "no call"
    /\ UNCHANGED <<registers, data_memory>>
    /\ UNCHANGED <<asm_vars, codec_vars>>

\* instruction_memory[pc] & 0x7F
fetch_opcode(byte) == IntOf(BitAnd(Bits(byte), Bits(127)))

\* the while condition fails
loop_exit ==
    /\ phase = "running"
    /\ ~(pc < Len(instruction_memory))
    /\ phase' = "halted"
    /\ halt' = "normal"
    /\ UNCHANGED <<instruction_memory, registers, data_memory, pc, instr, runs,
                   dump_range, memory_dump, out, ret>>
    /\ UNCHANGED <<asm_vars, codec_vars>>

\* lines 123-140 at position at of mem: the opcode, the table lookup, the
\* length check and the decoder's result
fetch_decode(mem, at) ==
    LET opcode == fetch_opcode(mem[at + 1]) IN
    IF opcode \notin DOMAIN opcodes
    THEN [status |-> "unknown opcode", opcode |-> opcode]
    ELSE LET instr_size == opcodes[opcode].size IN
         IF at + instr_size > Len(mem)
         THEN [status |-> "incomplete", opcode |-> opcode]
         ELSE [status |-> "ok", opcode |-> opcode, size |-> instr_size,
               instr |-> decoder(opcodes[opcode].decoder,
                                 SubSeq(mem, at + 1, at + instr_size))]

\* an iteration that ends in the first break
step_unknown ==
    /\ phase = "running"
    /\ pc < Len(instruction_memory)
    /\ LET fd == fetch_decode(instruction_memory, pc) IN
          /\ fd.status = "unknown opcode"
          /\ out' = Append(out, <<"unknown opcode", fd.opcode, pc>>)
    /\ phase' = "halted"
    /\ halt' = "error"
    /\ UNCHANGED <<instruction_memory, registers, data_memory, pc, instr, runs,
                   dump_range, memory_dump, ret>>
    /\ UNCHANGED <<asm_vars, codec_vars>>

\* an iteration that ends in the second break
step_incomplete ==
    /\ phase = "running"
    /\ pc < Len(instruction_memory)
    /\ fetch_decode(instruction_memory, pc).status = "incomplete"
    /\ out' = Append(out, <<"incomplete", pc>>)
    /\ phase' = "halted"
    /\ halt' = "error"
    /\ UNCHANGED <<instruction_memory, registers, data_memory, pc, instr, runs,
                   dump_range, memory_dump, ret>>
    /\ UNCHANGED <<asm_vars, codec_vars>>

\* an iteration over a whole instruction with a known opcode: fetch and
\* decode succeed, then the f-string of line 141 calls instr_bytes.hex() on
\* a slice of the list instruction_memory, a list, which has no such method:
\* AttributeError leaves run_interpreter before anything is printed or
\* executed and before pc is advanced (lines 143-165 are not reached)
step_decode ==
    /\ phase = "running"
    /\ pc < Len(instruction_memory)
    /\ LET fd == fetch_decode(instruction_memory, pc) IN
          /\ fd.status = "ok"
          /\ instr' = fd.instr
    /\ phase' = "raised"
    /\ ret' = "AttributeError"
    /\ UNCHANGED <<instruction_memory, registers, data_memory, pc, halt, runs,
                   dump_range, memory_dump, out>>
    /\ UNCHANGED <<asm_vars, codec_vars>>

\* the dict comprehension of the memory dump
dump_of(start, end) ==
    LET addrs == {addr \in start..end : addr \in DOMAIN data_memory}
    IN [addr \in addrs |-> data_memory[addr]]

\* after the loop: "Execution finished.", then the dump if one was asked for
run_finish ==
    /\ phase = "halted"
    /\ out' = Append(out, <<"finished">>)
    /\ \E arg \in DumpArgs :
          IF arg # NoDump
          THEN /\ dump_range' = arg
               /\ memory_dump' = dump_of(arg[1], arg[2])
          ELSE UNCHANGED <<dump_range, memory_dump>>
    /\ phase' = "returned"
    /\ ret' = "None"
    /\ UNCHANGED <<instruction_memory, registers, data_memory, pc, instr, halt,
                   runs>>
    /\ UNCHANGED <<asm_vars, codec_vars>>

Next ==
    \/ asm_step
    \/ asm_raise
    \/ asm_return
    \/ main_write
    \/ file_append
    \/ file_truncate
    \/ run_load
    \/ loop_exit
    \/ step_unknown
    \/ step_incomplete
    \/ step_decode
    \/ run_finish

Spec == Init /\ [][Next]_vars

\* ------------------------------------- the interpreter on any byte buffer
\* run_interpreter called on a file of arbitrary bytes

InitRaw ==
    /\ program = <<>>
    /\ binary_code = <<>>
    /\ asm_i = 1
    /\ asm_pc = "loop"
    /\ asm_exc = <<>>
    /\ file \in RawFiles
    /\ file_kind = "raw"
    /\ FreshVM
    /\ c_in = <<>>
    /\ c_bytes = <<>>
    /\ c_dec = <<>>
    /\ c_pc = "off"

NextRaw ==
    \/ run_load
    \/ loop_exit
    \/ step_unknown
    \/ step_incomplete
    \/ step_decode
    \/ run_finish

SpecRaw == InitRaw /\ [][NextRaw]_vars

\* ------------------------------------------------ the codec on its own
\* One instruction record through the encoder and then through the
\* interpreter's fetch and decode, over a wide set of field values.

\* records with a field value wider than its field: one bit above a field
\* that has a field over it, one bit above the highest field, and a value
\* that takes the word past the size of the command
WideInputs ==
    {[op |-> "ldc", const |-> 262144, addr |-> 0],
     [op |-> "ldc", const |-> 262149, addr |-> 2],
     [op |-> "ldc", const |-> 0, addr |-> 64],
     [op |-> "ldc", const |-> 1, addr |-> 128],
     [op |-> "read", offset |-> 128, addr1 |-> 0, addr2 |-> 63],
     [op |-> "read", offset |-> 0, addr1 |-> 0, addr2 |-> 64],
     [op |-> "write", addr1 |-> 64, addr2 |-> 0],
     [op |-> "write", addr1 |-> 0, addr2 |-> 64],
     [op |-> "write", addr1 |-> 0, addr2 |-> 2048],
     [op |-> "rsh", addr1 |-> 0, offset1 |-> 128, offset2 |-> 0,
      addr2 |-> 0, addr3 |-> 0],
     [op |-> "rsh", addr1 |-> 0, offset1 |-> 0, offset2 |-> 0,
      addr2 |-> 0, addr3 |-> 64],
     [op |-> "rsh", addr1 |-> 0, offset1 |-> 0, offset2 |-> 0,
      addr2 |-> 0, addr3 |-> 128]}

CodecInputs ==
    {[op |-> "ldc", const |-> c, addr |-> a] :
        c \in {0, 1, 29, 262143}, a \in {0, 12, 63}}
    \cup {[op |-> "read", offset |-> o, addr1 |-> a1, addr2 |-> a2] :
        o \in {0, 46, 127}, a1 \in {0, 50, 63}, a2 \in {0, 50, 63}}
    \cup {[op |-> "write", addr1 |-> a1, addr2 |-> a2] :
        a1 \in 0..(NumRegs - 1), a2 \in 0..(NumRegs - 1)}
    \cup {[op |-> "rsh", addr1 |-> a1, offset1 |-> o1, offset2 |-> o2,
           addr2 |-> a2, addr3 |-> a3] :
        a1 \in {0, 6, 63}, o1 \in {0, 36, 127}, o2 \in {35, 127},
        a2 \in {19, 63}, a3 \in {11, 63}}
    \cup WideInputs

InitCodec ==
    /\ program = <<>>
    /\ Fresh
    /\ c_in \in CodecInputs
    /\ c_bytes = <<>>
    /\ c_dec = <<>>
    /\ c_pc = "start"

codec_encode ==
    /\ c_pc = "start"
    /\ ~asm_overflows(c_in)
    /\ c_bytes' = asm_one(c_in)
    /\ c_pc' = "encoded"
    /\ UNCHANGED <<c_in, c_dec>>
    /\ UNCHANGED <<asm_vars, vm_vars>>

\* to_bytes raises OverflowError: the encoder returns no bytes
codec_overflow ==
    /\ c_pc = "start"
    /\ asm_overflows(c_in)
    /\ c_pc' = "overflow"
    /\ UNCHANGED <<c_in, c_bytes, c_dec>>
    /\ UNCHANGED <<asm_vars, vm_vars>>

codec_decode ==
    /\ c_pc = "encoded"
    /\ fetch_decode(c_bytes, 0).status = "ok"
    /\ c_dec' = fetch_decode(c_bytes, 0).instr
    /\ c_pc' = "decoded"
    /\ UNCHANGED <<c_in, c_bytes>>
    /\ UNCHANGED <<asm_vars, vm_vars>>

codec_reject ==
    /\ c_pc = "encoded"
    /\ fetch_decode(c_bytes, 0).status # "ok"
    /\ c_dec' = <<fetch_decode(c_bytes, 0).status>>
    /\ c_pc' = "rejected"
    /\ UNCHANGED <<c_in, c_bytes>>
    /\ UNCHANGED <<asm_vars, vm_vars>>

NextCodec ==
    \/ codec_encode
    \/ codec_overflow
    \/ codec_decode
    \/ codec_reject

SpecCodec == InitCodec /\ [][NextCodec]_vars

\* ================================================================= claims

RegIdx == 0..(NumRegs - 1)

\* the n bytes of instruction_memory that start at pc
WindowAt(n) == SubSeq(instruction_memory, pc + 1, pc + n)

\* the interpreter is about to run an iteration over at least n more bytes
AtWindow(n) == phase = "running" /\ pc + n <= Len(instruction_memory)

\* mem2 is mem1 with cell a set to v and nothing else changed
OnlyCellSet(mem1, mem2, a, v) ==
    /\ DOMAIN mem2 = DOMAIN mem1 \cup {a}
    /\ mem2[a] = v
    /\ \A x \in DOMAIN mem1 \ {a} : mem2[x] = mem1[x]

\* the records of the assembled program with tag op whose encoding is the
\* n bytes at pc
RecordsAtPc(op, n) ==
    {k \in 1..Len(program) :
        /\ program[k].op = op
        /\ WindowAt(n) = asm_one(program[k])}

\* C1: a step over the bytes the encoder gave for a record
\* write(addr1 = s, addr2 = d), that is Write(src_reg = s, dst_reg = d), only
\* sets data_memory[registers[d]] to registers[s].
CE_C1_WriteAddressFromDst ==
    [][AtWindow(3) =>
        \A k \in RecordsAtPc("write", 3) :
            /\ registers' = registers
            /\ OnlyCellSet(data_memory, data_memory',
                           registers[program[k].addr2],
                           registers[program[k].addr1])]_vars

\* ---- C2

\* the fields of an assembler record under the names of the data model
RolesOfRecord(r) ==
    IF r.op = "ldc"
    THEN [variant |-> "LoadConst", const |-> r.const, dst_reg |-> r.addr]
    ELSE IF r.op = "read"
    THEN [variant |-> "Read", offset |-> r.offset, src_reg |-> r.addr1,
          dst_reg |-> r.addr2]
    ELSE IF r.op = "write"
    THEN [variant |-> "Write", src_reg |-> r.addr1, dst_reg |-> r.addr2]
    ELSE [variant |-> "ShiftRight", dst_reg |-> r.addr1, dst_offset |-> r.offset1,
          src_offset |-> r.offset2, src_reg |-> r.addr2, operand_reg |-> r.addr3]

\* the fields of a decoded instruction under the same names
RolesOfDecoded(i) ==
    IF i.op = "ldc"
    THEN [variant |-> "LoadConst", const |-> i.const, dst_reg |-> i.addr]
    ELSE IF i.op = "read"
    THEN [variant |-> "Read", offset |-> i.offset, src_reg |-> i.addr_src,
          dst_reg |-> i.addr_dst]
    ELSE [variant |-> "Write", src_reg |-> i.addr_src, dst_reg |-> i.addr_dst]

\* every field of the record fits the width of its field
InRange(r) ==
    IF r.op = "ldc" THEN r.const \in 0..262143 /\ r.addr \in RegIdx
    ELSE IF r.op = "read"
    THEN r.offset \in 0..127 /\ r.addr1 \in RegIdx /\ r.addr2 \in RegIdx
    ELSE IF r.op = "write" THEN r.addr1 \in RegIdx /\ r.addr2 \in RegIdx
    ELSE /\ r.addr1 \in RegIdx /\ r.offset1 \in 0..127 /\ r.offset2 \in 0..127
         /\ r.addr2 \in RegIdx /\ r.addr3 \in RegIdx

\* C2: what the interpreter's table decodes from the encoder's bytes for a
\* record with in-range fields is an instruction of the same variant with
\* every field, matched by role, equal to the value encoded.
CE_C2_RoundTrip ==
    (c_pc \in {"decoded", "rejected"} /\ InRange(c_in)) =>
        /\ c_pc = "decoded"
        /\ RolesOfDecoded(c_dec) = RolesOfRecord(c_in)

\* ---- C3

\* operand >> amount for non-negative operands
ShiftRight(operand, amount) == operand \div (2^amount)

\* the value of cell a of a data memory, 0 for a cell it does not hold
CellOf(mem, a) == IF a \in DOMAIN mem THEN mem[a] ELSE 0

\* C3: the table has the four opcodes 101, 73, 5 and 75, and an encoded
\* ShiftRight met at pc is executed: the run stays out of the error halt, pc
\* advances by 5 and data_memory[registers[dst_reg] + dst_offset] holds
\* registers[operand_reg] >> data_memory[registers[src_reg] + src_offset].
CE_C3_ShiftRightExecuted ==
    [][AtWindow(5) =>
        \A k \in RecordsAtPc("rsh", 5) :
            LET r == program[k]
                dst == registers[r.addr1] + r.offset1
                amount == CellOf(data_memory, registers[r.addr2] + r.offset2)
            IN /\ DOMAIN opcodes = {101, 73, 5, 75}
               /\ halt' # "error"
               /\ pc' = pc + 5
               /\ dst \in DOMAIN data_memory'
               /\ data_memory'[dst] = ShiftRight(registers[r.addr3], amount)]_vars

\* ---- C4

\* the first invocation of run_interpreter is over
FirstRunOver == runs = 1 /\ phase \in {"halted", "returned", "raised"}

\* C4: the first run, on the unchanged binary of a program, ends in the
\* normal halt, never in the error halt, with pc equal to the length of the
\* binary.
CE_C4_ValidProgramHaltsNormally ==
    (FirstRunOver /\ file_kind = "asm") =>
        /\ halt = "normal"
        /\ pc = Len(binary_code)

\* ---- C5

\* run_interpreter has just loaded its binary; no iteration has run yet
JustLoaded ==
    /\ phase = "running"
    /\ out # <<>>
    /\ out[Len(out)][1] = "loaded"

\* C5: every invocation starts with pc = 0, all registers zero, an empty
\* data memory and an instruction store equal to the invocation's binary.
CE_C5_FreshStatePerRun ==
    JustLoaded =>
        /\ pc = 0
        /\ \A r \in RegIdx : registers[r] = 0
        /\ DOMAIN data_memory = {}
        /\ instruction_memory = file

\* ---- C6

\* C6: after the first run on the binary of [ldc(7, 0), write(0, 0)], whose
\* Write stores at address 7 whichever of its two fields names the address,
\* a dump of the range 0-7 holds address 7 and no other address.
CE_C6_DumpHoldsWritten ==
    (/\ FirstRunOver
     /\ phase # "halted"
     /\ file_kind = "asm"
     /\ program = <<[op |-> "ldc", const |-> 7, addr |-> 0],
                    [op |-> "write", addr1 |-> 0, addr2 |-> 0]>>) =>
        /\ phase = "returned"
        /\ dump_range = <<0, 7>> => DOMAIN memory_dump = {7}

\* ---- C7

\* the number of bytes the records of p take in a binary
RECURSIVE EncodedLen(_)
EncodedLen(p) ==
    IF p = <<>> THEN 0 ELSE Len(asm_one(Head(p))) + EncodedLen(Tail(p))

\* the file is the binary of N whole instructions followed by one more byte
\* or by an instruction short of its last byte; N is ValidPrefix
OffendingTail ==
    \/ file_kind = "appended"
    \/ file_kind = "truncated" /\ file # <<>>

ValidPrefix ==
    IF file_kind = "truncated" THEN Len(program) - 1 ELSE Len(program)

\* C7: the first run on a binary of N whole instructions followed by a bad
\* byte or a cut instruction ends in the error halt with pc at the start of
\* the offending instruction.
CE_C7_ErrorAfterAllValid ==
    (FirstRunOver /\ OffendingTail) =>
        /\ halt = "error"
        /\ pc = EncodedLen(SubSeq(program, 1, ValidPrefix))

\* ---- C8

\* bit n (from 0) of a little-endian byte string
BitOfBytes(bs, n) == (bs[(n \div 8) + 1] \div (2^(n % 8))) % 2

\* the width bits of bs from bit pos on, as a number
RECURSIVE FieldAt(_, _, _)
FieldAt(bs, pos, width) ==
    IF width = 0 THEN 0
    ELSE BitOfBytes(bs, pos) + 2 * FieldAt(bs, pos + 1, width - 1)

\* the layout of each operation: its opcode, its size in bytes and each
\* field's value, first bit and width
LayoutOf(r) ==
    IF r.op = "ldc"
    THEN [opcode |-> 101, size |-> 4,
          fields |-> {<<r.const, 7, 18>>, <<r.addr, 25, 6>>}]
    ELSE IF r.op = "read"
    THEN [opcode |-> 73, size |-> 4,
          fields |-> {<<r.offset, 7, 7>>, <<r.addr1, 14, 6>>, <<r.addr2, 20, 6>>}]
    ELSE IF r.op = "write"
    THEN [opcode |-> 5, size |-> 3,
          fields |-> {<<r.addr1, 7, 6>>, <<r.addr2, 13, 6>>}]
    ELSE [opcode |-> 75, size |-> 5,
          fields |-> {<<r.addr1, 7, 6>>, <<r.offset1, 13, 7>>, <<r.offset2, 20, 7>>,
                      <<r.addr2, 27, 6>>, <<r.addr3, 33, 6>>}]

\* the bit positions of a layout that hold the opcode or a field
UsedBits(l) ==
    (0..6) \cup UNION {f[2]..(f[2] + f[3] - 1) : f \in l.fields}

\* C8: the four fixed vectors encode to their stated bytes, and every
\* encoding of a record with in-range fields has its opcode in bits 0-6,
\* each field at its bit position, zero bits elsewhere, least-significant
\* byte first.
Thm_C8_FixedVectors ==
    (c_pc \in {"encoded", "decoded", "rejected"} /\ InRange(c_in)) =>
        /\ c_in = [op |-> "ldc", const |-> 29, addr |-> 12]
              => c_bytes = <<229, 14, 0, 24>>
        /\ c_in = [op |-> "read", offset |-> 46, addr1 |-> 50, addr2 |-> 50]
              => c_bytes = <<73, 151, 44, 3>>
        /\ c_in = [op |-> "write", addr1 |-> 38, addr2 |-> 47]
              => c_bytes = <<5, 243, 5>>
        /\ c_in = [op |-> "rsh", addr1 |-> 6, offset1 |-> 36, offset2 |-> 35,
                   addr2 |-> 19, addr3 |-> 11]
              => c_bytes = <<75, 131, 52, 154, 22>>
        /\ LET l == LayoutOf(c_in) IN
              /\ Len(c_bytes) = l.size
              /\ \A j \in 1..Len(c_bytes) : c_bytes[j] \in 0..255
              /\ FieldAt(c_bytes, 0, 7) = l.opcode
              /\ \A f \in l.fields : FieldAt(c_bytes, f[2], f[3]) = f[1]
              /\ \A n \in 0..(8 * l.size - 1) :
                    n \notin UsedBits(l) => BitOfBytes(c_bytes, n) = 0

\* the ShiftRight vector has been encoded
W_C8_ShiftRightVectorEncoded ==
    /\ c_pc = "encoded"
    /\ c_in = [op |-> "rsh", addr1 |-> 6, offset1 |-> 36, offset2 |-> 35,
               addr2 |-> 19, addr3 |-> 11]
    /\ c_bytes = <<75, 131, 52, 154, 22>>

\* ---- C9

\* the encodings of the records of p, joined from the last record back
RECURSIVE ConcatEnc(_)
ConcatEnc(p) ==
    IF p = <<>> THEN <<>> ELSE asm_one(Head(p)) \o ConcatEnc(Tail(p))

SizeOfOp(op) ==
    IF op = "ldc" THEN 4
    ELSE IF op = "read" THEN 4
    ELSE IF op = "write" THEN 3
    ELSE 5

RECURSIVE SumSizes(_)
SumSizes(p) ==
    IF p = <<>> THEN 0 ELSE SizeOfOp(Head(p).op) + SumSizes(Tail(p))

\* C9: what asm returns for a list of records with known tags is the
\* concatenation, in source order, of the encodings of the records, of
\* length the sum of the sizes 4, 4, 3, 5 of their operations.
Thm_C9_Concatenation ==
    asm_pc \in {"returned", "written"} =>
        /\ binary_code = ConcatEnc(program)
        /\ Len(binary_code) = SumSizes(program)

\* asm has returned the 12 bytes of an ldc, an rsh and a write record
W_C9_ThreeVariantsAssembled ==
    /\ asm_pc = "returned"
    /\ Len(program) = 3
    /\ program[1].op = "ldc"
    /\ program[2].op = "rsh"
    /\ program[3].op = "write"
    /\ Len(binary_code) = 12

\* ---- C10

\* C10: a step over the bytes the encoder gave for a record
\* read(offset, addr1 = src_reg, addr2 = dst_reg) is an executed iteration
\* that raises nothing, halts nothing and sets registers[dst_reg] to the
\* value held at registers[src_reg] + offset, 0 if that address holds none.
CE_C10_ReadExecuted ==
    [][AtWindow(4) =>
        \A k \in RecordsAtPc("read", 4) :
            LET r == program[k] IN
            /\ phase' = "running"
            /\ halt' = "none"
            /\ pc' = pc + 4
            /\ registers' = [registers EXCEPT
                  ![r.addr2] = CellOf(data_memory,
                                      registers[r.addr1] + r.offset)]]_vars

\* ---- C11

\* some record of the program has a tag asm does not know
HasBadTag == \E k \in 1..Len(program) : program[k].op \notin AsmOps

\* C11: when any record of the program has a tag outside ldc, read, write,
\* rsh, asm never returns and main never writes the output file: no byte of
\* the records before the bad one is returned or written.
Thm_C11_InvalidOperationAllOrNothing ==
    HasBadTag =>
        /\ asm_pc \in {"loop", "raised"}
        /\ file_kind = "none"
        /\ file = <<>>

\* asm has raised on the third record after encoding the first two
W_C11_RaisedAfterValidRecords ==
    /\ asm_pc = "raised"
    /\ Len(program) = 3
    /\ program[3].op \notin AsmOps
    /\ asm_i = 3
    /\ Len(binary_code) >= 6
    /\ file_kind = "none"

\* ---- C12

\* C12: a finished run that left the loop by an error break gives its caller
\* an outcome that differs from the None of a run that left it normally and
\* that carries the pc of the error, and an assembly that failed on a bad tag
\* gives its caller a ValueError that carries the tag.
CE_C12_DistinctFailureOutcome ==
    /\ (phase = "returned" /\ halt = "normal") => ret = "None"
    /\ (phase = "returned" /\ halt = "error") =>
          /\ ret # "None"
          /\ ret = <<"error", pc>>
    /\ (asm_pc = "raised") =>
          /\ asm_exc # <<>>
          /\ asm_exc[1] = "ValueError"
          /\ \E k \in 1..Len(program) :
                program[k].op \notin AsmOps /\ asm_exc[2] = program[k].op

\* ---- C13

\* C13: the first run on the binary of [ldc(7, 0), ldc(3, 1), write(0, 1)]
\* halts normally with data_memory[0] = 7.
CE_C13_ExampleProgram ==
    (/\ FirstRunOver
     /\ file_kind = "asm"
     /\ program = <<[op |-> "ldc", const |-> 7, addr |-> 0],
                    [op |-> "ldc", const |-> 3, addr |-> 1],
                    [op |-> "write", addr1 |-> 0, addr2 |-> 1]>>) =>
        /\ halt = "normal"
        /\ 0 \in DOMAIN data_memory
        /\ data_memory[0] = 7

\* ---- C14

\* the iteration at pc meets a known opcode with all its bytes present
AtWholeInstruction ==
    /\ phase = "running"
    /\ pc < Len(instruction_memory)
    /\ (instruction_memory[pc + 1] % 128) \in DOMAIN opcodes
    /\ pc + opcodes[instruction_memory[pc + 1] % 128].size
          <= Len(instruction_memory)

\* C14: an iteration over a whole instruction executes it and advances pc by
\* the size the table gives for its opcode; no iteration changes the
\* instruction store; an iteration that halts with an error leaves pc as it
\* is.
CE_C14_StepFrame ==
    [][phase = "running" =>
        /\ instruction_memory' = instruction_memory
        /\ halt' = "error" => pc' = pc
        /\ AtWholeInstruction =>
              /\ phase' = "running"
              /\ pc' = pc + opcodes[instruction_memory[pc + 1] % 128].size]_vars

\* ---- C15

\* C15: a step over the bytes the encoder gave for a record ldc(const, addr)
\* sets registers[addr] to const and leaves every other register and the
\* data memory as they are.
CE_C15_LoadConstExecuted ==
    [][AtWindow(4) =>
        \A k \in RecordsAtPc("ldc", 4) :
            /\ registers' = [registers EXCEPT
                  ![program[k].addr] = program[k].const]
            /\ data_memory' = data_memory]_vars

\* ---- C16

OpcodeOfOp(op) ==
    IF op = "ldc" THEN 101
    ELSE IF op = "read" THEN 73
    ELSE IF op = "write" THEN 5
    ELSE 75

\* C16: the bytes the encoder gives for a record with in-range fields are as
\* many as the size of its operation (ldc 4, read 4, write 3, rsh 5), and
\* the low seven bits of the first byte are its opcode (101, 73, 5, 75).
Thm_C16_OpcodeAndLength ==
    (c_pc \in {"encoded", "decoded", "rejected"} /\ InRange(c_in)) =>
        /\ Len(c_bytes) = SizeOfOp(c_in.op)
        /\ c_bytes[1] % 128 = OpcodeOfOp(c_in.op)

\* a write record with both fields at their maximum has been encoded: bit 7
\* of the first byte is set and the low seven bits are still 5
W_C16_MaxFieldsEncoded ==
    /\ c_pc = "encoded"
    /\ c_in = [op |-> "write", addr1 |-> 63, addr2 |-> 63]
    /\ Len(c_bytes) = 3
    /\ c_bytes[1] = 133

\* ---- C17

\* the register indices of a decoded instruction
RegFieldsOf(i) ==
    IF i = <<>> THEN {}
    ELSE IF i.op = "ldc" THEN {i.addr}
    ELSE {i.addr_src, i.addr_dst}

\* C17: on any byte buffer the register file has exactly the 64 cells
\* 0..63 and every register index of the decoded instruction lies in 0..63.
Thm_C17_RegisterIndexSafety ==
    /\ DOMAIN registers = 0..63
    /\ RegFieldsOf(instr) \subseteq 0..63

\* an ldc was decoded from bytes that are all ones above the opcode, bit 31
\* included, and its register index is 63
W_C17_IndexFromRawBytes ==
    /\ file_kind = "raw"
    /\ instr # <<>>
    /\ instr.op = "ldc"
    /\ instr.addr = 63
    /\ instruction_memory[pc + 4] = 255

\* ---- C18

\* C18: on any byte buffer every register value and every value of the data
\* memory lies in 0..2^18-1, and so does every decoded constant; every
\* address of the data memory, and the address registers[addr_src] + offset
\* of a decoded read, lies in 0..2^18-1+127.
Thm_C18_ValueAndAddressBounds ==
    /\ \A r \in DOMAIN registers : registers[r] \in 0..262143
    /\ \A a \in DOMAIN data_memory :
          a \in 0..(262143 + 127) /\ data_memory[a] \in 0..262143
    /\ instr # <<>> =>
          /\ instr.op = "ldc" => instr.const \in 0..262143
          /\ instr.op = "read" =>
                /\ instr.offset \in 0..127
                /\ (registers[instr.addr_src] + instr.offset)
                      \in 0..(262143 + 127)
          /\ instr.op = "write" =>
                registers[instr.addr_dst] \in 0..(262143 + 127)

\* a read with the largest offset was decoded from raw bytes
W_C18_LargestOffsetDecoded ==
    /\ file_kind = "raw"
    /\ instr # <<>>
    /\ instr.op = "read"
    /\ instr.offset = 127

\* ---- C19

\* C19: on any byte buffer pc stays within 0..len(instruction_memory), and
\* once the loop of a run is over the run is in the normal halt with pc at
\* the length of the buffer or in the error halt with pc below it.
CE_C19_LoopEndsInHalt ==
    /\ pc \in 0..Len(instruction_memory)
    /\ phase \in {"halted", "returned", "raised"} =>
          \/ halt = "normal" /\ pc = Len(instruction_memory)
          \/ halt = "error" /\ pc < Len(instruction_memory)

\* ---- C20

\* the record with in-range fields that the bits of bs spell at the field
\* positions of operation op
AliasOf(op, bs) ==
    IF op = "ldc"
    THEN [op |-> "ldc", const |-> FieldAt(bs, 7, 18), addr |-> FieldAt(bs, 25, 6)]
    ELSE IF op = "read"
    THEN [op |-> "read", offset |-> FieldAt(bs, 7, 7),
          addr1 |-> FieldAt(bs, 14, 6), addr2 |-> FieldAt(bs, 20, 6)]
    ELSE IF op = "write"
    THEN [op |-> "write", addr1 |-> FieldAt(bs, 7, 6),
          addr2 |-> FieldAt(bs, 13, 6)]
    ELSE [op |-> "rsh", addr1 |-> FieldAt(bs, 7, 6),
          offset1 |-> FieldAt(bs, 13, 7), offset2 |-> FieldAt(bs, 20, 7),
          addr2 |-> FieldAt(bs, 27, 6), addr3 |-> FieldAt(bs, 33, 6)]

\* the bit positions of the word (opcode) | (field << position) | ...
WordBits(l) ==
    Bits(l.opcode) \cup UNION {Shl(Bits(f[1]), f[2]) : f \in l.fields}

\* the record has been through the encoder, which returned bytes
Encoded == c_pc \in {"encoded", "decoded", "rejected"}

\* C20 as stated: the bytes the encoder returns for a record with a field
\* wider than its width are the encoding of a record with in-range fields,
\* with the opcode bits unaltered.
CE_C20_AliasesInRangeInstruction ==
    (Encoded /\ ~InRange(c_in)) =>
        /\ FieldAt(c_bytes, 0, 7) = OpcodeOfOp(c_in.op)
        /\ asm_one(AliasOf(c_in.op, c_bytes)) = c_bytes

\* C20 amended: the encoder rejects a record with a field wider than its
\* width only when the packed word needs more bytes than the size of the
\* command (OverflowError). Otherwise it returns the bytes of the word in
\* which every field, shifted to its position, is OR-ed in: the opcode bits
\* are unaltered, the excess bits of a field lie in the fields above it or
\* in the unused bits above the highest field, and the bytes are the
\* encoding of a record with in-range fields exactly when none of them lies
\* in the unused bits.
Thm_C20_AliasOrPadding ==
    /\ (c_pc = "overflow") =>
          /\ ~InRange(c_in)
          /\ \E n \in WordBits(LayoutOf(c_in)) : n >= 8 * LayoutOf(c_in).size
    /\ (Encoded /\ ~InRange(c_in)) =>
          LET l == LayoutOf(c_in)
              alias == AliasOf(c_in.op, c_bytes)
          IN /\ Len(c_bytes) = l.size
             /\ FieldAt(c_bytes, 0, 7) = l.opcode
             /\ \A n \in 0..(8 * l.size - 1) :
                   BitOfBytes(c_bytes, n) = 1 <=> n \in WordBits(l)
             /\ WordBits(l) \subseteq 0..(8 * l.size - 1)
             /\ InRange(alias)
             /\ alias # c_in
             /\ (asm_one(alias) = c_bytes) <=> (WordBits(l) \subseteq UsedBits(l))

\* ldc(const = 2^18, addr = 0) has been encoded to the bytes of ldc(0, 1)
W_C20_ConstAliasesRegister ==
    /\ c_pc = "encoded"
    /\ c_in = [op |-> "ldc", const |-> 262144, addr |-> 0]
    /\ c_bytes = asm_ldc(0, 1)
    /\ c_bytes = <<101, 0, 0, 2>>

====
